---- MODULE Spec2Model ----
(***************************************************************************)
(* Model of src/files/repositories.py: the generic Repository              *)
(* (filter / get / get_or_create / all / create / save) and the Store,     *)
(* Product, Category and Favorite repositories with their join tables.     *)
(*                                                                         *)
(* The SQL statements are modelled by their MySQL meaning (the dialect of  *)
(* the source: AUTO_INCREMENT, ON DUPLICATE KEY UPDATE, INSERT IGNORE):    *)
(*   - a table is a set of rows, a row a record of optional values         *)
(*     (<<>> is NULL / Python None, <<v>> is the value v);                 *)
(*   - the join tables are bags of rows, so that a duplicate row is        *)
(*     visible if the statement lets one in;                               *)
(*   - INSERT IGNORE turns duplicate-key, NOT NULL and foreign-key errors  *)
(*     into warnings: the row is skipped and no error is raised;           *)
(*   - an inline "col type REFERENCES t(c)" in a column definition is      *)
(*     parsed and ignored: only a separate FOREIGN KEY clause creates a    *)
(*     constraint.                                                         *)
(***************************************************************************)
EXTENDS Integers, FiniteSets, Sequences, Bags, TLC

VARIABLES db, result, client, callers

vars == <<db, result, client, callers>>

(***************************************************************************)
(* Bounds                                                                  *)
(***************************************************************************)
MaxStoreId == 2
MaxCategoryId == 1
MaxProductId == 2
NumCallers == 2
MaxJoinRows == 2

Names == {"a", "b"}
Grades == {"e"}
Urls == {"u"}

StoreIds == 1..MaxStoreId
CategoryIds == 1..MaxCategoryId
ProductIds == 1..MaxProductId
Callers == 1..NumCallers

(***************************************************************************)
(* Optional values: Python None / SQL NULL is <<>>, a value v is <<v>>.    *)
(***************************************************************************)
None == <<>>

Some(v) == <<v>>

Opt(S) == {None} \cup {Some(v) : v \in S}

(***************************************************************************)
(* Schemas (the CREATE TABLE statements)                                   *)
(***************************************************************************)
Columns(R) ==
    CASE R = "store" -> {"id", "name"}
      [] R = "category" -> {"id", "name"}
      [] R = "product" -> {"id", "name", "nutrition_grade", "url"}
      [] R = "favorite" -> {"substitut_id", "original_id"}

\* Columns declared NOT NULL (a PRIMARY KEY column is NOT NULL).
NotNullColumns(R) ==
    CASE R = "store" -> {"id", "name"}
      [] R = "category" -> {"id", "name"}
      [] R = "product" -> {"id", "name", "nutrition_grade"}
      [] R = "favorite" -> {"substitut_id", "original_id"}

\* Tables whose id column is AUTO_INCREMENT.
AutoIncrement == {"store", "category"}

MaxAuto(R) == IF R = "store" THEN MaxStoreId ELSE MaxCategoryId

\* Keyword arguments a caller can pass: keys are the names passed, vals
\* their values; a name that is not passed has no value.
Kwargs(R) ==
    LET Vals ==
          CASE R = "store" ->
                 {[id |-> i, name |-> n] : i \in Opt(StoreIds), n \in Opt(Names)}
            [] R = "category" ->
                 {[id |-> i, name |-> n] : i \in Opt(CategoryIds), n \in Opt(Names)}
            [] R = "product" ->
                 {[id |-> i, name |-> n, nutrition_grade |-> g, url |-> u] :
                    i \in Opt(ProductIds), n \in Opt({"a"}),
                    g \in Opt(Grades), u \in Opt(Urls)}
            [] R = "favorite" ->
                 {[substitut_id |-> s, original_id |-> o] :
                    s \in Opt(ProductIds), o \in Opt(ProductIds)}
    IN UNION {{[keys |-> K, vals |-> v] :
                 v \in {w \in Vals : \A c \in Columns(R) : w[c] # None => c \in K}} :
              K \in SUBSET Columns(R)}

\* model(**attributes): the attributes passed, None for the others.
Model(kwargs) == kwargs.vals

\* The keyword arguments name=n.
ByName(n) == [keys |-> {"name"}, vals |-> [id |-> None, name |-> n]]

Ok(value, d) == [status |-> "ok", value |-> value, db |-> d]

Raise(error, d) == [status |-> error, value |-> {}, db |-> d]

(***************************************************************************)
(* Repository                                                              *)
(***************************************************************************)
\* Repository.filter: the WHERE clause is the conjunction of "term = :term"
\* over the terms whose value is not None; no such term, no WHERE clause.
Conditions(kwargs) == {c \in kwargs.keys : kwargs.vals[c] # None}

\* Filter with every term in the WHERE clause, a None term as "IS NULL".
Filter_NoneIsNull(d, R, kwargs) ==
    {row \in d[R] : \A term \in kwargs.keys : row[term] = kwargs.vals[term]}

Filter(d, R, kwargs) ==
    {row \in d[R] : \A term \in Conditions(kwargs) : row[term] = kwargs.vals[term]}

\* Repository.all
All(d, R) == Filter(d, R, [keys |-> {}, vals |-> [c \in Columns(R) |-> None]])

\* get without the check for several instances.
Get_First(d, R, kwargs) ==
    LET instances == Filter(d, R, kwargs)
    IN IF instances = {} THEN Raise("NotFoundError", d)
       ELSE Ok({CHOOSE i \in instances : TRUE}, d)

\* Repository.get
Get(d, R, kwargs) ==
    LET instances == Filter(d, R, kwargs)
    IN IF instances = {} THEN Raise("NotFoundError", d)
       ELSE IF Cardinality(instances) > 1 THEN Raise("NotUniqueError", d)
       ELSE Ok(instances, d)

(***************************************************************************)
(* The INSERT statements                                                   *)
(***************************************************************************)
\* INSERT INTO t (id, name) VALUES (:id, :name)
\* ON DUPLICATE KEY UPDATE name = :name, on an AUTO_INCREMENT table.
Upsert(d, R, instance) ==
    IF instance.name = None THEN Raise("ConstraintViolation", d)
    ELSE IF instance.id = None THEN
        Ok({}, [d EXCEPT ![R] = @ \cup {[id |-> Some(d.auto[R]), name |-> instance.name]},
                         !.auto[R] = @ + 1])
    ELSE IF \E row \in d[R] : row.id = instance.id THEN
        Ok({}, [d EXCEPT ![R] = {IF row.id = instance.id
                                  THEN [row EXCEPT !.name = instance.name]
                                  ELSE row : row \in @}])
    ELSE
        Ok({}, [d EXCEPT ![R] = @ \cup {instance},
                         !.auto[R] = IF instance.id[1] >= @ THEN instance.id[1] + 1 ELSE @])

\* INSERT INTO t (...) VALUES (...): a plain insert.
Insert(d, R, instance) ==
    IF \E c \in NotNullColumns(R) : instance[c] = None
    THEN Raise("ConstraintViolation", d)
    ELSE IF R = "product" /\ \E row \in d[R] : row.id = instance.id
    THEN Raise("ConstraintViolation", d)
    ELSE IF R = "favorite" /\ instance \in d[R]
    THEN Raise("ConstraintViolation", d)
    ELSE Ok({}, [d EXCEPT ![R] = @ \cup {instance}])

(***************************************************************************)
(* save, create, get_or_create                                             *)
(***************************************************************************)
\* StoreRepository.save
StoreRepository_save(d, store) ==
    LET ins == Upsert(d, "store", store)
    IN IF ins.status # "ok" THEN ins
       ELSE IF store.id = None THEN
           LET found == Get(ins.db, "store", ByName(store.name))
           IN IF found.status # "ok" THEN found
              ELSE Ok({[store EXCEPT !.id = (CHOOSE i \in found.value : TRUE).id]}, ins.db)
       ELSE Ok({store}, ins.db)

\* CategoryRepository.save
CategoryRepository_save(d, category) ==
    LET ins == Upsert(d, "category", category)
    IN IF ins.status # "ok" THEN ins ELSE Ok({category}, ins.db)

\* ProductRepository.save
ProductRepository_save(d, product) ==
    LET ins == Insert(d, "product", product)
    IN IF ins.status # "ok" THEN ins ELSE Ok({product}, ins.db)

\* FavoriteRepository.save
FavoriteRepository_save(d, favorite) ==
    LET ins == Insert(d, "favorite", favorite)
    IN IF ins.status # "ok" THEN ins ELSE Ok({favorite}, ins.db)

Save(d, R, instance) ==
    CASE R = "store" -> StoreRepository_save(d, instance)
      [] R = "category" -> CategoryRepository_save(d, instance)
      [] R = "product" -> ProductRepository_save(d, instance)
      [] R = "favorite" -> FavoriteRepository_save(d, instance)

\* Repository.create
Create(d, R, attributes) == Save(d, R, Model(attributes))

\* Repository.get_or_create
GetOrCreate(d, R, kwargs) ==
    LET found == Get(d, R, kwargs)
    IN IF found.status = "NotFoundError" THEN Create(d, R, kwargs) ELSE found

\* A call is possible while it leaves the AUTO_INCREMENT counter in range.
Room(R, out) == R \in AutoIncrement => out.db.auto[R] <= MaxAuto(R) + 1

(***************************************************************************)
(* The join tables                                                         *)
(***************************************************************************)
\* The FOREIGN KEY clauses of product_store and product_category.
ForeignKeys(T) ==
    CASE T = "product_store" ->
           {[column |-> "product_id", references |-> "product"],
            [column |-> "store_id", references |-> "store"]}
      [] T = "product_category" ->
           {[column |-> "product_id", references |-> "product"],
            [column |-> "category_id", references |-> "category"]}

\* INSERT without IGNORE: a repeated primary key is an error.
InsertIgnore_Insert(d, T, row) ==
    IF \E fk \in ForeignKeys(T) :
          ~ \E r \in d[fk.references] : r.id = row[fk.column]
    THEN Raise("ConstraintViolation", d)
    ELSE IF BagIn(row, d[T]) THEN Raise("ConstraintViolation", d)
    ELSE Ok({}, [d EXCEPT ![T] = @ (+) SetToBag({row})])

\* INSERT IGNORE INTO T(...) VALUES (...): a row that breaks a foreign key
\* (a NULL, stored as 0 under IGNORE, references no row) or repeats the
\* primary key is skipped with a warning; the statement does not fail.
InsertIgnore(d, T, row) ==
    IF \E fk \in ForeignKeys(T) :
          ~ \E r \in d[fk.references] : r.id = row[fk.column]
    THEN Ok({}, d)
    ELSE IF BagIn(row, d[T]) THEN Ok({}, d)
    ELSE Ok({}, [d EXCEPT ![T] = @ (+) SetToBag({row})])

\* StoreRepository.add_product
StoreRepository_add_product(d, store, product) ==
    InsertIgnore(d, "product_store", [product_id |-> product.id, store_id |-> store.id])

\* ProductRepository.add_store
ProductRepository_add_store(d, product, store) ==
    InsertIgnore(d, "product_store", [product_id |-> product.id, store_id |-> store.id])

\* ProductRepository.add_category
ProductRepository_add_category(d, product, category) ==
    InsertIgnore(d, "product_category",
                 [product_id |-> product.id, category_id |-> category.id])

RECURSIVE Copies(_, _)
\* The number of rows of a join: each joined triple counts as often as its
\* join-table row is stored.
Copies(triples, bag) ==
    IF triples = {} THEN 0
    ELSE LET t == CHOOSE t \in triples : TRUE
         IN CopiesIn(t[2], bag) + Copies(triples \ {t}, bag)

\* A SELECT over joined tables names its tables in FROM / JOIN order, and
\* names the tables each ON clause, the WHERE clause and the select list
\* refer to.  A table referred to before it is joined is an unknown column.
Resolves(statement) ==
    LET joined(i) == {statement.from[j] : j \in 1..i}
    IN /\ \A i \in 1..Len(statement.on) : statement.on[i] \subseteq joined(i + 1)
       /\ statement.where \subseteq joined(Len(statement.from))
       /\ statement.select \subseteq joined(Len(statement.from))

\* SELECT store.id, store.name from store
\* JOIN product_store ON product_store.store_id = store.id
\* JOIN product ON product_store.product_id = product.id
\* WHERE product.id = :id
get_all_by_product_statement ==
    [select |-> {"store"},
     from |-> <<"store", "product_store", "product">>,
     on |-> <<{"product_store", "store"}, {"product_store", "product"}>>,
     where |-> {"product"}]

\* get_all_by_product without its WHERE clause.
StoreRepository_get_all_by_product_NoWhere(d, product) ==
    LET rows == {t \in d.store \X BagToSet(d.product_store) \X d.product :
                   /\ t[2].store_id = t[1].id
                   /\ t[2].product_id = t[3].id}
    IN [status |-> "ok",
        value |-> {[id |-> t[1].id, name |-> t[1].name] : t \in rows},
        n |-> Copies(rows, d.product_store)]

\* StoreRepository.get_all_by_product
StoreRepository_get_all_by_product(d, product) ==
    LET rows == {t \in d.store \X BagToSet(d.product_store) \X d.product :
                   /\ t[2].store_id = t[1].id
                   /\ t[2].product_id = t[3].id
                   /\ t[3].id = product.id}
    IN IF ~ Resolves(get_all_by_product_statement)
       THEN [status |-> "QueryError", value |-> {}, n |-> 0]
       ELSE [status |-> "ok",
             value |-> {[id |-> t[1].id, name |-> t[1].name] : t \in rows},
             n |-> Copies(rows, d.product_store)]

\* SELECT product.id, product.name from store
\* JOIN product_category ON product_category.product_id = product.id
\* JOIN product ON product_category.category_id = category.id
\* WHERE product.id = :id
get_all_by_category_statement ==
    [select |-> {"product"},
     from |-> <<"store", "product_category", "product">>,
     on |-> <<{"product_category", "product"}, {"product_category", "category"}>>,
     where |-> {"product"}]

\* CategoryRepository.get_all_by_category
CategoryRepository_get_all_by_category(d, category) ==
    LET rows == {t \in d.store \X BagToSet(d.product_category) \X d.product :
                   /\ t[2].product_id = t[3].id
                   /\ t[3].id = category.id}
    IN IF ~ Resolves(get_all_by_category_statement)
       THEN [status |-> "QueryError", value |-> {}, n |-> 0]
       ELSE [status |-> "ok",
             value |-> {[id |-> t[3].id, name |-> t[3].name] : t \in rows},
             n |-> Copies(rows, d.product_category)]

\* A row is added to a join table while the join tables hold fewer than
\* MaxJoinRows rows; a call that adds no row is always possible.
JoinRoom(d, out) ==
    \/ out.db = d
    \/ BagCardinality(d.product_store) + BagCardinality(d.product_category)
          < MaxJoinRows

(***************************************************************************)
(* State                                                                   *)
(***************************************************************************)
NoResult == [op |-> "none", repo |-> "none", args |-> None, status |-> "ok",
             value |-> {}, n |-> 0]

Returned(op, R, args, out) ==
    [op |-> op, repo |-> R, args |-> args, status |-> out.status,
     value |-> out.value, n |-> Cardinality(out.value)]

\* A caller of a scenario: its position and what its calls returned.
Idle == [pc |-> "start", r1 |-> NoResult, r2 |-> NoResult, r3 |-> NoResult]

\* A concurrent caller of StoreRepository.save: its position, the instance
\* it was given, the instance as it stands, the id of the row its statement
\* wrote, and the error raised.
Waiting == [pc |-> "idle", arrived |-> [id |-> None, name |-> None],
            store |-> [id |-> None, name |-> None], row |-> None, status |-> "ok"]

Init ==
    /\ db = [store |-> {}, category |-> {}, product |-> {}, favorite |-> {},
             product_store |-> EmptyBag, product_category |-> EmptyBag,
             auto |-> [store |-> 1, category |-> 1]]
    /\ result = NoResult
    /\ client = Idle
    /\ callers = [p \in Callers |-> Waiting]

(***************************************************************************)
(* One call of a Repository method by a single caller                      *)
(***************************************************************************)
DoFilter(R, kwargs) ==
    /\ db' = db
    /\ result' = Returned("filter", R, kwargs, Ok(Filter(db, R, kwargs), db))
    /\ UNCHANGED <<client, callers>>

DoAll(R) ==
    /\ db' = db
    /\ result' = Returned("all", R, None, Ok(All(db, R), db))
    /\ UNCHANGED <<client, callers>>

DoGet(R, kwargs) ==
    LET out == Get(db, R, kwargs)
    IN /\ db' = out.db
       /\ result' = Returned("get", R, kwargs, out)
       /\ UNCHANGED <<client, callers>>

DoGetOrCreate(R, kwargs) ==
    LET out == GetOrCreate(db, R, kwargs)
    IN /\ Room(R, out)
       /\ db' = out.db
       /\ result' = Returned("get_or_create", R, kwargs, out)
       /\ UNCHANGED <<client, callers>>

DoCreate(R, attributes) ==
    LET out == Create(db, R, attributes)
    IN /\ Room(R, out)
       /\ db' = out.db
       /\ result' = Returned("create", R, attributes, out)
       /\ UNCHANGED <<client, callers>>

DoSave(R, instance) ==
    LET out == Save(db, R, instance)
    IN /\ Room(R, out)
       /\ db' = out.db
       /\ result' = Returned("save", R, instance, out)
       /\ UNCHANGED <<client, callers>>

Instances(R) == {kw.vals : kw \in Kwargs(R)}

RepositoryNext(R) ==
    \/ \E kwargs \in Kwargs(R) : DoFilter(R, kwargs)
    \/ DoAll(R)
    \/ \E kwargs \in Kwargs(R) : DoGet(R, kwargs)
    \/ \E kwargs \in Kwargs(R) : DoGetOrCreate(R, kwargs)
    \/ \E attributes \in Kwargs(R) : DoCreate(R, attributes)
    \/ \E instance \in Instances(R) : DoSave(R, instance)

NextStore == RepositoryNext("store")

SpecStore == Init /\ [][NextStore]_vars

NextCategory == RepositoryNext("category")

SpecCategory == Init /\ [][NextCategory]_vars

\* The product table, whose url column may be NULL, and its searches.
NextProduct ==
    \/ \E kwargs \in Kwargs("product") : DoFilter("product", kwargs)
    \/ DoAll("product")
    \/ \E attributes \in Kwargs("product") : DoCreate("product", attributes)

SpecProduct == Init /\ [][NextProduct]_vars

(***************************************************************************)
(* A caller that calls get_or_create twice in a row with the same terms,   *)
(* starting from a table with no matching row.  Between two runs of the    *)
(* caller, rows are saved by other callers.                                *)
(***************************************************************************)
TwiceFirst(R, kwargs) ==
    LET out == GetOrCreate(db, R, kwargs)
    IN /\ client.pc = "start"
       /\ Filter(db, R, kwargs) = {}
       /\ Room(R, out)
       /\ db' = out.db
       /\ client' = [Idle EXCEPT !.pc = "first",
                                 !.r1 = Returned("get_or_create", R, kwargs, out)]
       /\ UNCHANGED <<result, callers>>

TwiceSecond ==
    LET R == client.r1.repo
        kwargs == client.r1.args
        out == GetOrCreate(db, R, kwargs)
    IN /\ client.pc = "first"
       /\ Room(R, out)
       /\ db' = out.db
       /\ client' = [client EXCEPT !.pc = "second",
                                   !.r2 = Returned("get_or_create", R, kwargs, out)]
       /\ UNCHANGED <<result, callers>>

ClientDone ==
    /\ client.pc \in {"second", "listed"}
    /\ client' = Idle
    /\ UNCHANGED <<db, result, callers>>

OtherSave(R) ==
    /\ client.pc = "start"
    /\ \E instance \in Instances(R) : DoSave(R, instance)

NextTwice ==
    \/ \E R \in AutoIncrement : \E n \in Names : TwiceFirst(R, ByName(Some(n)))
    \/ TwiceSecond
    \/ ClientDone
    \/ \E R \in AutoIncrement : OtherSave(R)

SpecTwice == Init /\ [][NextTwice]_vars

(***************************************************************************)
(* Calls on the join tables                                                *)
(***************************************************************************)
\* The instances a caller can hold: a row of the table, as filter, get or
\* StoreRepository.save return it, or an instance that has no id (yet).
Held(R) == db[R] \cup {[row EXCEPT !.id = None] : row \in db[R]}

DoAddProduct(store, product) ==
    LET out == StoreRepository_add_product(db, store, product)
    IN /\ JoinRoom(db, out)
       /\ db' = out.db
       /\ result' = Returned("add_product", "store",
                             [product |-> product, other |-> store], out)
       /\ UNCHANGED <<client, callers>>

DoAddStore(product, store) ==
    LET out == ProductRepository_add_store(db, product, store)
    IN /\ JoinRoom(db, out)
       /\ db' = out.db
       /\ result' = Returned("add_store", "product",
                             [product |-> product, other |-> store], out)
       /\ UNCHANGED <<client, callers>>

DoAddCategory(product, category) ==
    LET out == ProductRepository_add_category(db, product, category)
    IN /\ JoinRoom(db, out)
       /\ db' = out.db
       /\ result' = Returned("add_category", "product",
                             [product |-> product, other |-> category], out)
       /\ UNCHANGED <<client, callers>>

DoGetAllByProduct(product) ==
    LET out == StoreRepository_get_all_by_product(db, product)
    IN /\ db' = db
       /\ result' = [op |-> "get_all_by_product", repo |-> "store", args |-> product,
                     status |-> out.status, value |-> out.value, n |-> out.n]
       /\ UNCHANGED <<client, callers>>

\* The products a caller creates: Product(id, name, nutrition_grade).
NewProducts ==
    {[keys |-> {"id", "name", "nutrition_grade"},
      vals |-> [id |-> Some(i), name |-> Some("a"), nutrition_grade |-> Some(g),
                url |-> None]] : i \in ProductIds, g \in Grades}

\* A product instance whose row may not exist.
AnyProduct ==
    {[id |-> i, name |-> Some("a"), nutrition_grade |-> Some(g), url |-> None] :
        i \in Opt(ProductIds), g \in Grades}

CreateProduct == \E attributes \in NewProducts : DoCreate("product", attributes)

\* Stores, products and the store-product edges.
NextStoreEdges ==
    \/ \E n \in Names : DoCreate("store", ByName(Some(n)))
    \/ CreateProduct
    \/ \E store \in db.store : \E product \in AnyProduct :
          DoAddProduct(store, product)
    \/ \E store \in db.store : \E product \in AnyProduct :
          DoAddStore(product, store)
    \/ \E product \in AnyProduct : DoGetAllByProduct(product)

SpecStoreEdges == Init /\ [][NextStoreEdges]_vars

\* Stores, categories, products and both kinds of edges.
NextEdges ==
    \/ DoCreate("store", ByName(Some("a")))
    \/ DoCreate("category", ByName(Some("a")))
    \/ CreateProduct
    \/ \E store \in db.store : \E product \in AnyProduct :
          DoAddProduct(store, product)
    \/ \E store \in db.store : \E product \in AnyProduct :
          DoAddStore(product, store)
    \/ \E category \in Held("category") : \E product \in AnyProduct :
          DoAddCategory(product, category)

SpecEdges == Init /\ [][NextEdges]_vars

\* Products and favorites.
AnyFavorite ==
    {[substitut_id |-> s, original_id |-> o] :
        s \in Opt(ProductIds), o \in Opt(ProductIds)}

NextFavorite ==
    \/ CreateProduct
    \/ \E favorite \in AnyFavorite : DoSave("favorite", favorite)

SpecFavorite == Init /\ [][NextFavorite]_vars

(***************************************************************************)
(* A caller that creates a category, adds it to an existing product and    *)
(* lists the category.  Between two runs, products, stores and categories  *)
(* are created by other callers.                                           *)
(***************************************************************************)
ListCreateCategory(n) ==
    LET attributes == ByName(Some(n))
        out == Create(db, "category", attributes)
    IN /\ client.pc = "start"
       /\ db.product # {}
       /\ Room("category", out)
       /\ db' = out.db
       /\ client' = [Idle EXCEPT !.pc = "created",
                                 !.r1 = Returned("create", "category", attributes, out)]
       /\ UNCHANGED <<result, callers>>

ListAddCategory(product) ==
    \E category \in client.r1.value :
        LET out == ProductRepository_add_category(db, product, category)
        IN /\ client.pc = "created"
           /\ JoinRoom(db, out)
           /\ db' = out.db
           /\ client' = [client EXCEPT
                           !.pc = "added",
                           !.r2 = Returned("add_category", "product",
                                           [product |-> product, other |-> category], out)]
           /\ UNCHANGED <<result, callers>>

ListGetAllByCategory ==
    LET category == client.r2.args.other
        out == CategoryRepository_get_all_by_category(db, category)
    IN /\ client.pc = "added"
       /\ db' = db
       /\ client' = [client EXCEPT
                       !.pc = "listed",
                       !.r3 = [op |-> "get_all_by_category", repo |-> "category",
                               args |-> category, status |-> out.status,
                               value |-> out.value, n |-> out.n]]
       /\ UNCHANGED <<result, callers>>

OtherCreate ==
    /\ client.pc = "start"
    /\ \/ CreateProduct
       \/ DoCreate("store", ByName(Some("a")))
       \/ \E n \in Names : DoCreate("category", ByName(Some(n)))

NextList ==
    \/ \E n \in Names : ListCreateCategory(n)
    \/ \E product \in db.product : ListAddCategory(product)
    \/ ListGetAllByCategory
    \/ ClientDone
    \/ OtherCreate

SpecList == Init /\ [][NextList]_vars

(***************************************************************************)
(* Concurrent callers of StoreRepository.save: the INSERT statement and    *)
(* the lookup by name are two statements, and the statements of the other  *)
(* callers run in between.                                                 *)
(***************************************************************************)
\* The INSERT ... ON DUPLICATE KEY UPDATE of StoreRepository.save; a save
\* of an instance that has an id returns after it.
SaveInsert(p, store) ==
    LET ins == Upsert(db, "store", store)
        written == IF store.id = None THEN Some(db.auto.store) ELSE store.id
    IN /\ callers[p].pc = "idle"
       /\ Room("store", ins)
       /\ db' = ins.db
       /\ callers' = [callers EXCEPT ![p] =
             IF ins.status # "ok"
             THEN [pc |-> "raised", arrived |-> store, store |-> store,
                   row |-> None, status |-> ins.status]
             ELSE [pc |-> IF store.id = None THEN "inserted" ELSE "returned",
                   arrived |-> store, store |-> store, row |-> written,
                   status |-> "ok"]]
       /\ UNCHANGED <<result, client>>

\* store.id = self.get(name=store.name).id
SaveLookup(p) ==
    LET found == Get(db, "store", ByName(callers[p].store.name))
    IN /\ callers[p].pc = "inserted"
       /\ callers' = [callers EXCEPT ![p] =
             IF found.status # "ok"
             THEN [@ EXCEPT !.pc = "raised", !.status = found.status]
             ELSE [@ EXCEPT !.pc = "returned",
                            !.store.id = (CHOOSE i \in found.value : TRUE).id]]
       /\ UNCHANGED <<db, result, client>>

SaveDone(p) ==
    /\ callers[p].pc \in {"returned", "raised"}
    /\ callers' = [callers EXCEPT ![p] = Waiting]
    /\ UNCHANGED <<db, result, client>>

NextConcurrent ==
    \E p \in Callers :
        \/ \E store \in Instances("store") : SaveInsert(p, store)
        \/ SaveLookup(p)
        \/ SaveDone(p)

SpecConcurrent == Init /\ [][NextConcurrent]_vars

(***************************************************************************)
(* Properties                                                              *)
(***************************************************************************)
Matching(R, kwargs) == Cardinality(Filter(db, R, kwargs))

\* C1: get has exactly one of three outcomes, decided by the number of rows
\* filter returns for the same terms: none, NotFoundError; two or more,
\* NotUniqueError; one, that instance.  The table is left unchanged.
C1_GetOutcome ==
    /\ [](result.op = "get" =>
            /\ Matching(result.repo, result.args) = 0 =>
                   result.status = "NotFoundError"
            /\ Matching(result.repo, result.args) >= 2 =>
                   result.status = "NotUniqueError"
            /\ Matching(result.repo, result.args) = 1 =>
                   /\ result.status = "ok"
                   /\ result.value = Filter(db, result.repo, result.args))
    /\ [][result'.op = "get" => db' = db]_vars

C1_Witness ==
    /\ result.op = "get"
    /\ result.status = "NotUniqueError"
    /\ Matching(result.repo, result.args) = 2

\* C4: filter returns exactly the rows whose columns equal every term that
\* has a value; a term that is None constrains nothing; with no term that
\* has a value, filter returns every row, as all() does.
C4_FilterPresentTerms ==
    /\ result.op = "filter" =>
          /\ result.value =
                {row \in db[result.repo] :
                   \A c \in result.args.keys :
                      result.args.vals[c] = None \/ row[c] = result.args.vals[c]}
          /\ (\A c \in result.args.keys : result.args.vals[c] = None) =>
                /\ result.value = db[result.repo]
                /\ result.value = All(db, result.repo)
    /\ result.op = "all" => result.value = db[result.repo]

C4_Witness ==
    /\ result.op = "filter"
    /\ \E c \in result.args.keys : result.args.vals[c] = None
    /\ \E c \in result.args.keys : result.args.vals[c] # None
    /\ result.value # {}
    /\ result.value # db[result.repo]
    /\ \E row \in db[result.repo] : row.url = None

\* C2: get_or_create is idempotent on Store and Category: from a table with
\* no matching row, two calls in a row with the same terms both succeed,
\* return the same identifier, and leave exactly one matching row.
C2_GetOrCreateIdempotent ==
    client.pc = "second" =>
        /\ client.r1.status = "ok"
        /\ client.r2.status = "ok"
        /\ \A i1 \in client.r1.value : \A i2 \in client.r2.value : i1.id = i2.id
        /\ Matching(client.r1.repo, client.r1.args) = 1

\* C3: create without an id on Store and Category returns an instance whose
\* id is set and is the id of the row that holds its attributes.
C3_CreatePopulatesId ==
    (/\ result.op = "create"
     /\ result.repo \in AutoIncrement
     /\ result.args.vals.id = None
     /\ result.status = "ok") =>
        \A instance \in result.value :
            /\ instance.id # None
            /\ \E row \in db[result.repo] : row = instance

\* C7: a save without an id whose name is the name of an existing row adds
\* no second row with that name, and returns normally.
C7_UpsertByName ==
    [][(/\ result'.op = "save"
        /\ result'.repo \in AutoIncrement
        /\ result'.args.id = None
        /\ result'.args.name # None) =>
           /\ result'.status = "ok"
           /\ \A row \in db'[result'.repo] : \A other \in db'[result'.repo] :
                 (row.name = result'.args.name /\ other.name = result'.args.name)
                    => row = other]_vars

EdgeOps == {"add_product", "add_store", "add_category"}

EdgeTable(op) == IF op = "add_category" THEN "product_category" ELSE "product_store"

\* The join-table row a call of add_product, add_store or add_category is about.
EdgeRow(r) ==
    IF r.op = "add_category"
    THEN [product_id |-> r.args.product.id, category_id |-> r.args.other.id]
    ELSE [product_id |-> r.args.product.id, store_id |-> r.args.other.id]

Ids(R) == {row.id : row \in db[R]}

\* C5: product_store and product_category hold at most one row per pair;
\* add_product, add_store and add_category on an existing store, product
\* and category succeed, and leave both tables unchanged when the edge is
\* already there.
C5_EdgeIdempotent ==
    /\ [](/\ \A e \in BagToSet(db.product_store) : CopiesIn(e, db.product_store) = 1
          /\ \A e \in BagToSet(db.product_category) :
                CopiesIn(e, db.product_category) = 1
          /\ (result.op \in EdgeOps /\ EdgeRow(result).product_id \in Ids("product")
                /\ result.args.other \in db[IF result.op = "add_category"
                                            THEN "category" ELSE "store"]) =>
                /\ result.status = "ok"
                /\ BagIn(EdgeRow(result), db[EdgeTable(result.op)]))
    /\ [][(result'.op \in EdgeOps
            /\ BagIn(EdgeRow(result'), db[EdgeTable(result'.op)])) =>
             /\ result'.status = "ok"
             /\ db' = db]_vars

C5_Witness ==
    /\ result.op = "add_store"
    /\ result.status = "ok"
    /\ BagIn(EdgeRow(result), db.product_store)
    /\ BagCardinality(db.product_store) = 1
    /\ BagCardinality(db.product_category) = 1

\* C6: an edge insert or a Favorite save whose product id is the id of no
\* product fails with a constraint violation, and every row of
\* product_store, product_category and favorite references existing products.
C6_ReferentialIntegrity ==
    /\ (result.op \in EdgeOps /\ result.args.product.id \notin Ids("product")) =>
          result.status = "ConstraintViolation"
    /\ (/\ result.op = "save"
        /\ result.repo = "favorite"
        /\ \/ result.args.substitut_id \notin Ids("product")
           \/ result.args.original_id \notin Ids("product")) =>
          result.status = "ConstraintViolation"
    /\ \A e \in BagToSet(db.product_store) : e.product_id \in Ids("product")
    /\ \A e \in BagToSet(db.product_category) : e.product_id \in Ids("product")
    /\ \A f \in db.favorite :
          f.substitut_id \in Ids("product") /\ f.original_id \in Ids("product")

\* C8: get_all_by_product(product) returns exactly the stores that have an
\* edge with the product in product_store, each once, with its id and name.
C8_StoresOfProduct ==
    result.op = "get_all_by_product" =>
        /\ result.status = "ok"
        /\ result.value =
              {s \in db.store :
                 BagIn([product_id |-> result.args.id, store_id |-> s.id],
                       db.product_store)}
        /\ result.n = Cardinality(result.value)

C8_Witness ==
    /\ result.op = "get_all_by_product"
    /\ Cardinality(result.value) = 1
    /\ Cardinality(db.store) = 2
    /\ BagCardinality(db.product_store) = 2

\* C9: create a category, add it to an existing product, list the category:
\* no call fails, the edge (product id, category id) is in product_category,
\* and the list contains the product.
C9_ProductsOfCategory ==
    client.pc = "listed" =>
        /\ client.r1.status = "ok"
        /\ client.r2.status = "ok"
        /\ client.r3.status = "ok"
        /\ \E e \in BagToSet(db.product_category) :
              /\ e.product_id = client.r2.args.product.id
              /\ e.category_id \in {c.id : c \in db.category}
              /\ e.category_id = client.r2.args.other.id
        /\ \E product \in client.r3.value : product.id = client.r2.args.product.id

\* C10: when a save of a store that arrived without an id returns, the id
\* it has set is the id of the row this save inserted.
C10_SaveSetsOwnId ==
    \A p \in Callers :
        (callers[p].pc = "returned" /\ callers[p].arrived.id = None) =>
            callers[p].store.id = callers[p].row
====
